---------------------------- MODULE Spec2Model ----------------------------
(***************************************************************************)
(* Model of currconv.go: the process-wide rate cache `data`, its refresh   *)
(* (Data.update, getData, decodeJSON), the conversion arithmetic           *)
(* (Data.convert, roundTo2Decimals) and the request handler                *)
(* convertHandler, which net/http runs on one goroutine per connection.    *)
(*                                                                         *)
(* Time is counted in half hours.  A float64 is a fraction [n, d]; d = 0   *)
(* encodes the IEEE specials: n = 1 is +Inf, n = -1 is -Inf, n = 0 is NaN. *)
(* Rounding error of float64 arithmetic and the sign of zero are not       *)
(* modelled.                                                               *)
(***************************************************************************)
EXTENDS Integers, FiniteSets, Sequences, TLC

(***************************************************************************)
(* Bounds of the model.                                                    *)
(***************************************************************************)
\* the clock runs from 0 to MaxTime half hours
MaxTime == 3
\* an upstream document reports a timestamp up to MaxLag half hours old
MaxLag == 3

\* half hours in the hour of `timePassed.Hours() > 1`
Hour == 2

Handlers == {"h1", "h2"}
HandlerOrder == <<"h1", "h2">>

(***************************************************************************)
(* float64                                                                 *)
(***************************************************************************)
Abs(x) == IF x < 0 THEN -x ELSE x

Sgn(x) == IF x < 0 THEN -1 ELSE IF x > 0 THEN 1 ELSE 0

RECURSIVE Gcd(_, _)
Gcd(a, b) == IF b = 0 THEN a ELSE Gcd(b, a % b)

\* the fraction n/d (d # 0) in lowest terms with a positive denominator
Norm(n, d) ==
    LET g == Gcd(Abs(n), Abs(d))
    IN  [n |-> (Sgn(d) * n) \div g, d |-> Abs(d) \div g]

F(n, d) == Norm(n, d)
PosInf == [n |-> 1, d |-> 0]
NegInf == [n |-> -1, d |-> 0]
NaN == [n |-> 0, d |-> 0]
Zero == [n |-> 0, d |-> 1]

IsNaN(x) == x.d = 0 /\ x.n = 0
IsInf(x) == x.d = 0 /\ x.n # 0
IsFinite(x) == x.d # 0

\* float64 division x / y
FDiv(x, y) ==
    IF IsNaN(x) \/ IsNaN(y) THEN NaN
    ELSE IF IsInf(x) THEN
        IF IsInf(y) THEN NaN
        ELSE [n |-> IF y.n < 0 THEN -x.n ELSE x.n, d |-> 0]
    ELSE IF IsInf(y) THEN Zero
    ELSE IF y.n = 0 THEN
        IF x.n = 0 THEN NaN ELSE [n |-> Sgn(x.n), d |-> 0]
    ELSE Norm(x.n * y.d, x.d * y.n)

\* float64 multiplication x * y
FMul(x, y) ==
    IF IsNaN(x) \/ IsNaN(y) THEN NaN
    ELSE IF IsInf(x) \/ IsInf(y) THEN
        IF x.n = 0 \/ y.n = 0 THEN NaN
        ELSE [n |-> Sgn(x.n) * Sgn(y.n), d |-> 0]
    ELSE Norm(x.n * y.n, x.d * y.d)

\* math.Round: the nearest integer, halves away from zero
MathRound(x) ==
    IF ~IsFinite(x) THEN x
    ELSE [n |-> Sgn(x.n) * ((2 * Abs(x.n) + x.d) \div (2 * x.d)), d |-> 1]

roundTo2Decimals(x) == FDiv(MathRound(FMul(x, F(100, 1))), F(100, 1))

(***************************************************************************)
(* Data and its methods                                                    *)
(***************************************************************************)
NilRates == [c \in {} |-> Zero]

\* A map[string]float64 is a reference: Data.Rates holds the name of a map,
\* and copies of a Data share the map.  heap[r] is what the map r holds.
VARIABLE heap

\* the nil map, the zero value of the field Rates
NilMap == 0

\* names for the maps in use at one time: one the cache refers to, and
\* one per goroutine holding a Data
MapRefs == 1..(Cardinality(Handlers) + 1)

\* the entries read through a reference; a nil map reads as empty
Deref(r) == IF r = NilMap THEN NilRates ELSE heap[r]

\* the zero value of Data, which `var data Data` holds before main stores
ZeroData ==
    [Success |-> FALSE, Timestamp |-> 0, Base |-> "", Date |-> "",
     Rates |-> NilMap]

\* a map index expression: the zero value for an absent key
RateOf(rates, curr) == IF curr \in DOMAIN rates THEN rates[curr] ELSE Zero

\* the comma-ok form `_, ok := data.Rates[curr]`
HasRate(rates, curr) == curr \in DOMAIN rates

convertSwapped(d, curr1, curr2, amount) ==
    FMul(FDiv(amount, RateOf(Deref(d.Rates), curr2)), RateOf(Deref(d.Rates), curr1))

convert(d, curr1, curr2, amount) ==
    LET euroAmount == FDiv(amount, RateOf(Deref(d.Rates), curr1))
    IN  FMul(euroAmount, RateOf(Deref(d.Rates), curr2))

StaleAtOneHour(timePassed) == timePassed >= Hour

\* the test `timePassed.Hours() > 1` of update
Stale(timePassed) == timePassed > Hour


(***************************************************************************)
(* JSON values, as json.Unmarshal decodes them into interface{}            *)
(***************************************************************************)
JNull == [t |-> "nil"]
JBool(x) == [t |-> "bool", b |-> x]
JNum(x) == [t |-> "float64", f |-> x]
JStr(x) == [t |-> "string", s |-> x]
JObj(x) == [t |-> "map", m |-> x]
JArr == [t |-> "slice"]

\* m[key] on a map[string]interface{}: nil for an absent key
Lookup(m, key) == IF key \in DOMAIN m THEN m[key] ELSE JNull

\* int64(x) of a float64 holding a timestamp: truncation toward zero
Int64(x) == Sgn(x.n) * (Abs(x.n) \div x.d)

\* the bytes of a response body: well-formed JSON text of a value, or not
Body(v) == [wellformed |-> TRUE, json |-> v]
Malformed == [wellformed |-> FALSE, json |-> JNull]

\* what decodeJSON comes to; d carries in Rates the entries that lines 114
\* to 116 put into the map of line 112
Fatal == [kind |-> "fatal", d |-> [ZeroData EXCEPT !.Rates = NilRates]]
Panic == [kind |-> "panic", d |-> [ZeroData EXCEPT !.Rates = NilRates]]
Decoded(d) == [kind |-> "ok", d |-> d]

\* decodeJSON with every type assertion in its comma-ok form, which
\* yields the zero value where the plain form panics
decodeJSONDefaults(b) ==
    IF ~b.wellformed THEN Fatal
    ELSE LET m == IF b.json.t = "map" THEN b.json.m ELSE [k \in {} |-> JNull]
             s == Lookup(m, "success")
             ts == Lookup(m, "timestamp")
             ba == Lookup(m, "base")
             da == Lookup(m, "date")
             r == Lookup(m, "rates")
             rm == IF r.t = "map" THEN r.m ELSE [k \in {} |-> JNull]
         IN  Decoded([Success |-> IF s.t = "bool" THEN s.b ELSE FALSE,
                      Timestamp |-> IF ts.t = "float64" THEN Int64(ts.f) ELSE 0,
                      Base |-> IF ba.t = "string" THEN ba.s ELSE "",
                      Date |-> IF da.t = "string" THEN da.s ELSE "",
                      Rates |-> [c \in DOMAIN rm |->
                                    IF rm[c].t = "float64" THEN rm[c].f ELSE Zero]])

\* decodeJSON: log.Fatalln on text that is not JSON, a run-time panic on a
\* failed type assertion, the Data built from the five fields otherwise
decodeJSON(b) ==
    IF ~b.wellformed THEN Fatal
    ELSE IF b.json.t # "map" THEN Panic
    ELSE LET m == b.json.m IN
         IF Lookup(m, "success").t # "bool" THEN Panic
         ELSE IF Lookup(m, "timestamp").t # "float64" THEN Panic
         ELSE IF Lookup(m, "base").t # "string" THEN Panic
         ELSE IF Lookup(m, "date").t # "string" THEN Panic
         ELSE IF Lookup(m, "rates").t # "map" THEN Panic
         ELSE LET r == Lookup(m, "rates").m IN
              IF \E c \in DOMAIN r : r[c].t # "float64" THEN Panic
              ELSE Decoded([Success |-> Lookup(m, "success").b,
                            Timestamp |-> Int64(Lookup(m, "timestamp").f),
                            Base |-> Lookup(m, "base").s,
                            Date |-> Lookup(m, "date").s,
                            Rates |-> [c \in DOMAIN r |-> r[c].f]])

(***************************************************************************)
(* State                                                                   *)
(***************************************************************************)
VARIABLES
    now,        \* the wall clock, in half hours since the server listens
    process,    \* "running", "exited" (os.Exit of log.Fatalln) or "crashed"
    data,       \* the package variable `data`
    main,       \* the main goroutine: its position, the body it fetched
                \* and whether http.Get returned an error
    handler,    \* per goroutine serving /convert/: position and locals
    clients,    \* "concurrent", or "serial": one request at a time
    provider,   \* "lagging", or "punctual": every document is of now
    lastRefresh \* history kept for serial clients: the time of the latest
                \* call of update that fetched, if it returned a snapshot,
                \* and -1 otherwise

vars == <<now, process, data, main, handler, clients, provider, lastRefresh, heap>>

(***************************************************************************)
(* The upstream rate provider                                              *)
(***************************************************************************)
TableA == [USD |-> F(6, 5), GBP |-> F(9, 10)]
TableB == [USD |-> F(5, 4), XAU |-> Zero]
Tables == {TableA, TableB}

\* the provider derives the date of a document from its timestamp
DateOf(ts) == ToString(ts)

RatesObj(table) == JObj([c \in DOMAIN table |-> JNum(table[c])])

Doc(success, ts, table) ==
    JObj([success |-> JBool(success), timestamp |-> JNum(F(ts, 1)),
          base |-> JStr("EUR"), date |-> JStr(DateOf(ts)),
          rates |-> RatesObj(table)])

\* a document without the rates key
DocNoRates(ts) ==
    JObj([success |-> JBool(TRUE), timestamp |-> JNum(F(ts, 1)),
          base |-> JStr("EUR"), date |-> JStr(DateOf(ts))])

\* the provider's error document: the flag and an error object
DocError == JObj([success |-> JBool(FALSE), error |-> JObj([code |-> JNum(F(104, 1))])])

\* a document one of whose rates is a string
DocBadRate(ts) ==
    JObj([success |-> JBool(TRUE), timestamp |-> JNum(F(ts, 1)),
          base |-> JStr("EUR"), date |-> JStr(DateOf(ts)),
          rates |-> JObj([USD |-> JStr("1.2")])])

Max(a, b) == IF a > b THEN a ELSE b

\* the timestamps a document obtained at time t may report: a lagging
\* provider refreshes its rates now and then, so the document may be
\* MaxLag old; the timestamps of a punctual provider never decrease
Timestamps(t) == IF provider = "punctual" THEN {t} ELSE {t, Max(t - MaxLag, 0)}

\* what http.Get and ioutil.ReadAll can deliver at time t: no response at
\* all (resp is nil), or a body
Responses(t) ==
    {[kind |-> "neterr", body |-> Malformed], [kind |-> "ok", body |-> Malformed],
     [kind |-> "ok", body |-> Body(JArr)], [kind |-> "ok", body |-> Body(DocError)],
     [kind |-> "ok", body |-> Body(DocNoRates(t))],
     [kind |-> "ok", body |-> Body(DocBadRate(t))],
     [kind |-> "ok", body |-> Body(Doc(FALSE, t, TableA))]}
    \cup {[kind |-> "ok", body |-> Body(Doc(TRUE, ts, tb))] :
              ts \in Timestamps(t), tb \in Tables}

(***************************************************************************)
(* Requests to /convert/                                                   *)
(***************************************************************************)
\* strconv.ParseFloat of the value parameter: the float64 and the error
Parsed(x) == [f |-> x, err |-> FALSE]
ParseFailed == [f |-> Zero, err |-> TRUE]

Request(from, to, value) == [from |-> from, to |-> to, value |-> value]

\* the queries the model sends: known and unknown codes, a code of rate 0,
\* and amounts that are positive, negative, not finite or not a number
Requests ==
    {Request("USD", "GBP", Parsed(F(120, 1))),
     Request("XAU", "XAU", Parsed(F(120, 1))),
     Request("USD", "USD", Parsed(F(5, 2))),
     Request("ZZZ", "USD", Parsed(F(10, 1))),
     Request("USD", "ZZZ", Parsed(F(10, 1))),
     Request("USD", "GBP", Parsed(F(-5, 1))),
     Request("USD", "GBP", Parsed(PosInf)),
     Request("USD", "GBP", Parsed(NaN)),
     Request("USD", "GBP", ParseFailed)}

Fields == <<"Success", "Timestamp", "Base", "Date", "Rates">>

\* the variable after the fields numbered in w have been overwritten by
\* those of d
Assign(old, d, w) ==
    [f \in {Fields[i] : i \in 1..Len(Fields)} |->
        IF \E i \in w : Fields[i] = f THEN d[f] ELSE old[f]]

\* a goroutine that serves no request
Idle ==
    [pc |-> "idle", recv |-> ZeroData, timePassed |-> 0, fetches |-> 0,
     parses |-> 0, fetchErr |-> FALSE, b |-> Malformed, d |-> ZeroData, written |-> 0,
     from |-> "", to |-> "", value |-> ParseFailed, okFrom |-> FALSE,
     okTo |-> FALSE, time |-> 0, used |-> ZeroData, raw |-> Zero,
     result |-> Zero, outcome |-> "none"]

\* the request is over: what the client got, the locals that made it
Done(h, outcome) == [h EXCEPT !.pc = "done", !.outcome = outcome]

Start(c, p) ==
    /\ now = 0
    /\ process = "running"
    /\ data = ZeroData
    /\ main = [pc |-> "getData", b |-> Malformed, err |-> FALSE]
    /\ handler = [h \in Handlers |-> Idle]
    /\ clients = c
    /\ provider = p
    /\ lastRefresh = -1
    /\ heap = [r \in MapRefs |-> NilRates]

\* the maps some variable refers to
Live ==
    ({data.Rates} \cup UNION {{handler[h].recv.Rates, handler[h].d.Rates,
                               handler[h].used.Rates} : h \in Handlers})
        \ {NilMap}

\* the map a goroutine holds: update holds one Data, its receiver, which
\* line 60 overwrites, and convert holds one Data, its receiver
MapOf(s) ==
    IF s.d.Rates # NilMap THEN s.d.Rates
    ELSE IF s.recv.Rates # NilMap THEN s.recv.Rates
    ELSE s.used.Rates

\* A program cannot observe which map is which but by what it holds, so
\* the model names a map after the first variable that refers to it: 1 is
\* the map of the cache d, i + 1 the map of the i-th goroutine of refs
Name(r, d, refs) ==
    IF r = NilMap \/ (r # d.Rates /\ \A i \in DOMAIN refs : refs[i] # r)
    THEN NilMap
    ELSE IF r = d.Rates THEN 1
    ELSE 1 + CHOOSE i \in DOMAIN refs :
                 refs[i] = r /\ \A j \in 1..(i - 1) : refs[j] # r

\* the step ends with d in the cache, hs in the goroutines and hp on the
\* heap: the garbage collector frees the maps nothing refers to any more,
\* and the maps that stay are named anew
Commit(d, hs, hp) ==
    \E refs \in {[i \in 1..Len(HandlerOrder) |-> MapOf(hs[HandlerOrder[i]])]} :
    \E name \in {[r \in MapRefs \cup {NilMap} |-> Name(r, d, refs)]} :
        /\ data' = [d EXCEPT !.Rates = name[@]]
        /\ handler' = [h \in Handlers |->
               [hs[h] EXCEPT !.recv.Rates = name[@], !.d.Rates = name[@],
                             !.used.Rates = name[@]]]
        /\ heap' = [n \in MapRefs |->
               IF \E r \in MapRefs : name[r] = n
               THEN hp[CHOOSE r \in MapRefs : name[r] = n]
               ELSE NilRates]

Unused == CHOOSE r \in MapRefs \ Live : \A q \in MapRefs \ Live : r <= q

\* a refresh that writes the new rates into the map of the cache
makeOnce == IF data.Rates = NilMap THEN Unused ELSE data.Rates

\* line 112: make(map[string]float64), a map nothing refers to yet
make == Unused

\* lines 112 to 118: the Data decodeJSON returns refers to the map r, and
\* r holds the entries of the document
Built(d, r) == [d EXCEPT !.Rates = r]
Filled(d, r) == [heap EXCEPT ![r] = d.Rates]

Init == Start("concurrent", "lagging")

SerialInit == Start("serial", "lagging")

PunctualInit == Start("concurrent", "punctual")

(***************************************************************************)
(* main                                                                    *)
(***************************************************************************)
\* line 194, the request of getData leaves
MainGetData ==
    /\ process = "running" /\ main.pc = "getData"
    /\ main' = [main EXCEPT !.pc = "inflight"]
    /\ UNCHANGED <<now, process, data, handler, clients, provider, lastRefresh, heap>>

\* getData in main, had it returned after logging the error, and had main
\* gone on to listen with the zero value of data
MainResponseCarriesOn ==
    /\ process = "running" /\ main.pc = "inflight"
    /\ \E r \in Responses(now) :
          IF r.kind = "neterr"
          THEN main' = [main EXCEPT !.pc = "serve", !.err = TRUE]
          ELSE main' = [main EXCEPT !.pc = "decode", !.b = r.body]
    /\ UNCHANGED <<now, process, data, handler, clients, provider, lastRefresh, heap>>

\* getData in main: with no response resp is nil and `resp.Body` panics,
\* which nothing recovers in the main goroutine
MainResponse ==
    /\ process = "running" /\ main.pc = "inflight"
    /\ \E r \in Responses(now) :
          IF r.kind = "neterr"
          THEN /\ process' = "crashed"
               /\ main' = [main EXCEPT !.pc = "dead", !.err = TRUE]
          ELSE /\ main' = [main EXCEPT !.pc = "decode", !.b = r.body]
               /\ UNCHANGED process
    /\ UNCHANGED <<now, data, handler, clients, provider, lastRefresh, heap>>

\* line 195: data = decodeJSON(b), then the server listens
MainDecode ==
    /\ process = "running" /\ main.pc = "decode"
    /\ LET res == decodeJSON(main.b) IN
          CASE res.kind = "fatal" ->
                  /\ process' = "exited"
                  /\ main' = [main EXCEPT !.pc = "dead", !.b = Malformed]
                  /\ UNCHANGED <<data, handler, heap>>
            [] res.kind = "panic" ->
                  /\ process' = "crashed"
                  /\ main' = [main EXCEPT !.pc = "dead", !.b = Malformed]
                  /\ UNCHANGED <<data, handler, heap>>
            [] OTHER ->
                  /\ Commit(Built(res.d, make), handler, Filled(res.d, make))
                  /\ main' = [main EXCEPT !.pc = "serve", !.b = Malformed]
                  /\ UNCHANGED process
    /\ UNCHANGED <<now, clients, provider, lastRefresh>>

Serving == process = "running" /\ main.pc = "serve"

(***************************************************************************)
(* convertHandler                                                          *)
(***************************************************************************)
\* serial clients send a request when the one before has been answered
MayStart(h) ==
    clients = "serial" => \A g \in Handlers \ {h} : handler[g].pc = "idle"

\* line 146 up to the test of update: the receiver is a copy of data
HUpdate(h) ==
    /\ Serving /\ handler[h].pc = "idle" /\ MayStart(h)
    /\ LET timePassed == now - data.Timestamp IN
          handler' = [handler EXCEPT ![h] =
              IF Stale(timePassed)
              THEN [@ EXCEPT !.pc = "getData", !.timePassed = timePassed]
              ELSE [@ EXCEPT !.pc = "store", !.timePassed = timePassed,
                             !.recv = data, !.d = data]]
    /\ lastRefresh' = IF clients = "serial" /\ Stale(now - data.Timestamp)
                      THEN now ELSE lastRefresh
    /\ UNCHANGED <<now, process, data, main, clients, provider, heap>>

\* line 58 and line 78: the request of getData leaves
HGetData(h) ==
    /\ Serving /\ handler[h].pc = "getData"
    /\ handler' = [handler EXCEPT ![h].pc = "inflight", ![h].fetches = @ + 1]
    /\ UNCHANGED <<now, process, data, main, clients, provider, lastRefresh, heap>>

\* lines 78 to 90 and 59 to 61.  With no response resp is nil and
\* `resp.Body` panics; net/http recovers the panic of a handler and drops
\* the connection.  Otherwise the body goes to decodeJSON.
HResponse(h) ==
    /\ Serving /\ handler[h].pc = "inflight"
    /\ \E r \in Responses(now) :
          IF r.kind = "neterr"
          THEN /\ handler' = [handler EXCEPT ![h] =
                     Done([@ EXCEPT !.fetchErr = TRUE], "panic in getData")]
               /\ lastRefresh' = -1
               /\ UNCHANGED <<process, data, heap>>
          ELSE LET res == decodeJSON(r.body)
                   h1 == [handler[h] EXCEPT !.parses = @ + 1, !.b = r.body]
               IN  CASE res.kind = "fatal" ->
                           /\ process' = "exited"
                           /\ handler' = [handler EXCEPT ![h] = h1]
                           /\ lastRefresh' = -1
                           /\ UNCHANGED <<data, heap>>
                     [] res.kind = "panic" ->
                           /\ handler' = [handler EXCEPT ![h] =
                                             Done(h1, "panic in decodeJSON")]
                           /\ lastRefresh' = -1
                           /\ UNCHANGED <<process, data, heap>>
                     [] OTHER ->
                           /\ Commit(data,
                                     [handler EXCEPT ![h] =
                                         [h1 EXCEPT !.pc = "store",
                                                    !.d = Built(res.d, make)]],
                                     Filled(res.d, make))
                           /\ UNCHANGED <<process, lastRefresh>>
    /\ UNCHANGED <<now, main, clients, provider>>

\* line 146, the assignment to data.  No lock orders it with the other
\* goroutines: the struct is copied field after field, and they may run
\* when only the first k fields have been written.
HStore(h) ==
    /\ Serving /\ handler[h].pc = "store"
    /\ \E k \in 0..Len(Fields) :
          LET hs == [handler EXCEPT ![h].pc = "stored", ![h].written = k] IN
          IF \E i \in 1..k : Fields[i] = "Rates"
          THEN Commit(Assign(data, handler[h].d, 1..k), hs, heap)
          ELSE /\ data' = Assign(data, handler[h].d, 1..k)
               /\ handler' = hs
               /\ UNCHANGED heap
    /\ UNCHANGED <<now, process, main, clients, provider, lastRefresh>>

\* line 146, the rest of the assignment
HStored(h) ==
    /\ Serving /\ handler[h].pc = "stored"
    /\ Commit(Assign(data, handler[h].d,
                     (handler[h].written + 1)..Len(Fields)),
              [handler EXCEPT ![h] = [Idle EXCEPT !.pc = "query"]],
              heap)
    /\ UNCHANGED <<now, process, main, clients, provider, lastRefresh>>

\* lines 148 to 153: the query, and the first read of data.Rates; a query
\* without one of the three parameters panics on the index [0]
HCheckFrom(h) ==
    /\ Serving /\ handler[h].pc = "query"
    /\ \/ handler' = [handler EXCEPT ![h] = Done(@, "panic in convertHandler")]
       \/ \E q \in Requests :
             handler' = [handler EXCEPT ![h] =
                 [@ EXCEPT !.pc = "checkTo", !.from = q.from, !.to = q.to,
                           !.value = q.value,
                           !.okFrom = HasRate(Deref(data.Rates), q.from)]]
    /\ UNCHANGED <<now, process, data, main, clients, provider, lastRefresh, heap>>

RedirectsOnAll(err, okFrom, okTo) == err /\ ~okFrom /\ ~okTo

\* the condition of line 155
Redirects(err, okFrom, okTo) == err \/ ~okFrom \/ ~okTo

\* lines 154 to 159: the second read of data.Rates, and the redirect
HCheckTo(h) ==
    /\ Serving /\ handler[h].pc = "checkTo"
    /\ LET okTo == HasRate(Deref(data.Rates), handler[h].to) IN
          handler' = [handler EXCEPT ![h] =
              IF Redirects(@.value.err, @.okFrom, okTo)
              THEN Done([@ EXCEPT !.okTo = okTo], "redirect")
              ELSE [@ EXCEPT !.pc = "time", !.okTo = okTo]]
    /\ UNCHANGED <<now, process, data, main, clients, provider, lastRefresh, heap>>

\* line 161: the read of data.Timestamp
HTime(h) ==
    /\ Serving /\ handler[h].pc = "time"
    /\ handler' = [handler EXCEPT ![h].pc = "convert",
                                  ![h].time = data.Timestamp]
    /\ UNCHANGED <<now, process, data, main, clients, provider, lastRefresh, heap>>

\* lines 163 to 168: the receiver of convert is a copy of data
HConvert(h) ==
    /\ Serving /\ handler[h].pc = "convert"
    /\ LET raw == convert(data, handler[h].from, handler[h].to,
                          handler[h].value.f) IN
          handler' = [handler EXCEPT ![h] =
              Done([@ EXCEPT !.used = data, !.raw = raw,
                             !.result = roundTo2Decimals(raw)], "rendered")]
    /\ UNCHANGED <<now, process, data, main, clients, provider, lastRefresh, heap>>

\* the goroutine serves the next request of its connection
HReturn(h) ==
    /\ Serving /\ handler[h].pc = "done"
    /\ Commit(data, [handler EXCEPT ![h] = Idle], heap)
    /\ UNCHANGED <<now, process, main, clients, provider, lastRefresh>>

\* half an hour passes
Tick ==
    /\ Serving /\ now < MaxTime
    /\ now' = now + 1
    /\ UNCHANGED <<process, data, main, handler, clients, provider, lastRefresh, heap>>

Update == \E h \in Handlers : HUpdate(h)
GetData == \E h \in Handlers : HGetData(h)
Response == \E h \in Handlers : HResponse(h)
Store == \E h \in Handlers : HStore(h)
Stored == \E h \in Handlers : HStored(h)
CheckFrom == \E h \in Handlers : HCheckFrom(h)
CheckTo == \E h \in Handlers : HCheckTo(h)
Time == \E h \in Handlers : HTime(h)
Convert == \E h \in Handlers : HConvert(h)
Return == \E h \in Handlers : HReturn(h)

Next ==
    \/ MainGetData \/ MainResponse \/ MainDecode \/ Tick
    \/ Update \/ GetData \/ Response \/ Store \/ Stored
    \/ CheckFrom \/ CheckTo \/ Time \/ Convert \/ Return

\* requests served concurrently
Spec == Init /\ [][Next]_vars

\* requests served one at a time
SerialSpec == SerialInit /\ [][Next]_vars

\* requests served concurrently, upstream timestamps that never decrease
PunctualSpec == PunctualInit /\ [][Next]_vars

(***************************************************************************)
(* Properties                                                              *)
(***************************************************************************)
\* the request was aborted by a panic, which net/http recovers
Panics == {"panic in getData", "panic in decodeJSON", "panic in convertHandler"}

\* the call of update has come to its end
UpdateOver(s) ==
    \/ s.pc = "store"
    \/ s.pc = "done" /\ s.outcome \in {"panic in getData", "panic in decodeJSON"}
    \/ s.pc = "inflight" /\ process = "exited" /\ s.parses = 1

C3_OneFetchInFlight ==
    Cardinality({h \in Handlers : handler[h].pc = "inflight"}) <= 1

\* C4: a call of update whose fetch fails still returns the snapshot to its
\* caller, so the request is answered and not aborted
C4_DegradedServe ==
    \A h \in Handlers :
        handler[h].fetchErr /\ handler[h].pc = "done" =>
            handler[h].outcome \in {"rendered", "redirect"}

\* C5: once the server listens, no outcome of a refresh ends the process
C5_ProcessSurvives == main.pc = "serve" => process = "running"

\* the fields are those of one document of the provider
OneSnapshot(d) == d.Date = DateOf(d.Timestamp)

\* C6: every copy of the cache a handler reads holds the fields of one
\* snapshot
C6_ReadsOneSnapshot ==
    \A h \in Handlers :
        /\ handler[h].pc = "store" /\ handler[h].fetches = 0 =>
              OneSnapshot(handler[h].recv)
        /\ handler[h].outcome = "rendered" => OneSnapshot(handler[h].used)

C8_ConvertFormula ==
    \A h \in Handlers :
        LET s == handler[h]
            v == s.value.f
            r1 == RateOf(Deref(s.used.Rates), s.from)
            r2 == RateOf(Deref(s.used.Rates), s.to)
        IN  (/\ s.outcome = "rendered"
             /\ s.from \in DOMAIN Deref(s.used.Rates) /\ s.to \in DOMAIN Deref(s.used.Rates)
             /\ r1.n # 0 /\ r2.n # 0)
            => /\ IsFinite(v) =>
                     /\ IsFinite(s.raw)
                     /\ s.raw.n * (v.d * r1.n * r2.d) = s.raw.d * (v.n * r1.d * r2.n)
               /\ ~IsFinite(v) =>
                     s.raw = [n |-> v.n * Sgn(r1.n) * Sgn(r2.n), d |-> 0]
               /\ (s.from = "USD" /\ s.to = "GBP" /\ v = F(120, 1)
                      /\ Deref(s.used.Rates) = TableA) => s.raw = F(90, 1)

C8_Witness ==
    \E h \in Handlers :
        /\ handler[h].outcome = "rendered"
        /\ handler[h].from = "USD" /\ handler[h].to = "GBP"
        /\ handler[h].value.f = F(120, 1) /\ Deref(handler[h].used.Rates) = TableA
        /\ handler[h].raw = F(90, 1)

RequiredKeys == {"success", "timestamp", "base", "date", "rates"}

\* the body is a JSON object without one of the required keys
LacksField(b) ==
    /\ b.wellformed /\ b.json.t = "map"
    /\ \E k \in RequiredKeys : k \notin DOMAIN b.json.m

\* C9: the parse of a document that lacks a required key ends in a panic
\* that aborts the request before line 146 assigns to data, it yields no
\* Data, and the cache never holds a rate table that no document gave
C9_MissingField ==
    /\ Serving => Deref(data.Rates) # NilRates
    /\ \A h \in Handlers :
          handler[h].parses = 1 /\ LacksField(handler[h].b) =>
              /\ handler[h].pc = "done"
              /\ handler[h].outcome = "panic in decodeJSON"
              /\ handler[h].d = ZeroData

C9_Witness ==
    \E h \in Handlers :
        /\ handler[h].outcome = "panic in decodeJSON"
        /\ handler[h].b.wellformed /\ handler[h].b.json.t = "map"
        /\ "rates" \notin DOMAIN handler[h].b.json.m
        /\ RequiredKeys \ {"rates"} \subseteq DOMAIN handler[h].b.json.m
        /\ Deref(data.Rates) \in Tables

\* C10: no document whose success flag is false becomes the cache
C10_SuccessFalseRejected == Serving => data.Success

\* C2: with requests served one at a time, a call of update made at most
\* one hour after a call that fetched and returned a snapshot fetches
\* nothing and returns the cached snapshot
C2_StalenessGate ==
    [][\A h \in Handlers :
          (/\ handler[h].pc = "idle" /\ handler'[h].pc # "idle"
           /\ lastRefresh >= 0 /\ now - lastRefresh <= Hour)
          => /\ handler'[h].pc = "store"
             /\ handler'[h].d = data]_vars

\* C11: no request whose amount is negative or not finite is rendered
\* with a converted value
C11_InvalidAmount ==
    \A h \in Handlers :
        LET s == handler[h] IN
        s.outcome = "rendered" => IsFinite(s.value.f) /\ s.value.f.n >= 0

\* C12: converting an amount that is finite and not negative from a
\* currency of the rates to itself yields the amount, whatever its rate
C12_SelfConversion ==
    \A h \in Handlers :
        LET s == handler[h] IN
        (/\ s.outcome = "rendered" /\ s.from = s.to
         /\ s.from \in DOMAIN Deref(s.used.Rates)
         /\ IsFinite(s.value.f) /\ s.value.f.n >= 0)
        => s.raw = s.value.f

C15_SingleSnapshot ==
    \A h \in Handlers :
        LET s == handler[h] IN
        s.outcome = "rendered" =>
            /\ s.from \in DOMAIN Deref(s.used.Rates) /\ s.to \in DOMAIN Deref(s.used.Rates)
            /\ s.time = s.used.Timestamp

\* C16: with upstream timestamps that never decrease, the timestamp of the
\* cache never decreases
C16_NoLostRefresh == [][Serving => data'.Timestamp >= data.Timestamp]_vars

\* what a holder of the Data x reads: its fields, and the entries of its
\* rates map
View(x) == [x EXCEPT !.Rates = Deref(@)]

\* the step is no assignment to data (lines 146 and 195)
NoStore ==
    /\ main'.pc = main.pc
    /\ \A h \in Handlers :
          handler[h].pc \in {"store", "stored"} => handler'[h].pc = handler[h].pc

\* C13: a snapshot is never changed.  A step of another goroutine leaves
\* what a goroutine reads through the Data it holds as it was, timestamp,
\* base, date and every entry of the rates; a step that is no assignment
\* to data leaves what is read through the cache as it was; and the Data a
\* refresh has built refers to a map of its own, which neither the cache
\* nor another goroutine refers to
C13_SnapshotImmutable ==
    [][/\ \A h \in Handlers :
             handler'[h].pc = handler[h].pc =>
                 /\ View(handler[h].recv)' = View(handler[h].recv)
                 /\ View(handler[h].d)' = View(handler[h].d)
                 /\ View(handler[h].used)' = View(handler[h].used)
       /\ NoStore => View(data)' = View(data)
       /\ \A h \in Handlers :
             handler'[h].pc = "store" /\ handler'[h].fetches = 1 =>
                 /\ handler'[h].d.Rates \notin {NilMap, data'.Rates}
                 /\ \A g \in Handlers \ {h} :
                       MapOf(handler'[g]) # handler'[h].d.Rates]_vars

\* a request was rendered on the rates of a snapshot which a refresh has
\* since replaced in the cache, and still reads the rates it was rendered on
C13_Witness ==
    \E h \in Handlers :
        LET s == handler[h] IN
        /\ s.outcome = "rendered" /\ s.used.Rates # data.Rates
        /\ Deref(s.used.Rates) = TableA /\ Deref(data.Rates) = TableB
        /\ s.from = "USD" /\ s.to = "GBP" /\ s.value.f = F(120, 1)
        /\ s.raw = F(90, 1)

=============================================================================
